---- MODULE Spec2Model ----
(***************************************************************************)
(* Model of src/bootstrap/rustc.rs: the shim Cargo runs as "rustc" during  *)
(* the bootstrap.  One run of main() is a state machine: classify the      *)
(* forwarded arguments, select the compiler, compose the command (its      *)
(* arguments and environment), spawn it, and exit with the child's code.   *)
(*                                                                         *)
(* Strings (OsString, String, &str) are sequences of one-character         *)
(* strings, so that contains(), split(), format!() and the path joining    *)
(* are computed and not assumed.  BadByte stands for a byte sequence that  *)
(* is not valid Unicode: to_str() and env::var() refuse a string holding   *)
(* it, env::var_os() and the argument forwarding do not.                   *)
(***************************************************************************)
EXTENDS Integers, Sequences, FiniteSets

VARIABLES
    args,        \* env::args_os().skip(1): the forwarded arguments
    env,         \* the process environment, fixed for the run
    pc,          \* position of main()
    target,      \* Option<&str>: the value following the first "--target"
    rustc,       \* Option<OsString>: the selected compiler binary
    cmd,         \* the Command under construction
    spawns,      \* number of times cmd.status() tried to spawn
    child,       \* what the spawned child was handed
    status,      \* the child's ExitStatus
    exitCode,    \* the code main() passed to std::process::exit
    panic        \* the panic that ended main(), if any

vars ==
    <<args, env, pc, target, rustc, cmd, spawns, child, status, exitCode, panic>>

---------------------------------------------------------------------------
(* Bounds of the model.                                                    *)

\* Longest forwarded argument list that Init enumerates exhaustively.
MaxArgs ==
    3

\* The child's exit codes are drawn from 0..MaxCode.
MaxCode ==
    2

---------------------------------------------------------------------------
(* String literals of the source.                                          *)

S_target ==
    <<"-", "-", "t", "a", "r", "g", "e", "t">>
S_cfg ==
    <<"-", "-", "c", "f", "g">>
S_stage ==
    <<"s", "t", "a", "g", "e">>
S_sysroot ==
    <<"-", "-", "s", "y", "s", "r", "o", "o", "t">>
S_prefer_dynamic ==
    <<"-", "C", "p", "r", "e", "f", "e", "r", "-", "d", "y", "n", "a", "m", "i", "c">>
S_native ==
    <<"n", "a", "t", "i", "v", "e", "=">>
S_lib ==
    <<"/", "l", "i", "b">>
S_L ==
    <<"-", "L">>
S_space ==
    <<" ">>
S_true ==
    <<"t", "r", "u", "e">>
S_g ==
    <<"-", "g">>
S_y ==
    <<"y">>
S_n ==
    <<"n">>
S_C ==
    <<"-", "C">>
S_debug_assertions ==
    <<"d", "e", "b", "u", "g", "-", "a", "s", "s", "e", "r", "t", "i", "o", "n", "s", "=">>
S_codegen_units ==
    <<"c", "o", "d", "e", "g", "e", "n", "-", "u", "n", "i", "t", "s", "=">>
S_apple ==
    <<"a", "p", "p", "l", "e">>
S_windows ==
    <<"w", "i", "n", "d", "o", "w", "s">>
S_rpath_apple ==
    <<"-", "W", "l", ",", "-", "r", "p", "a", "t", "h", ",", "@", "l", "o", "a", "d", "e", "r", "_", "p", "a", "t", "h", "/", ".", ".", "/", "l", "i", "b">>
S_rpath_origin ==
    <<"-", "W", "l", ",", "-", "r", "p", "a", "t", "h", ",", "$", "O", "R", "I", "G", "I", "N", "/", ".", ".", "/", "l", "i", "b">>
S_link_args ==
    <<"l", "i", "n", "k", "-", "a", "r", "g", "s", "=">>

---------------------------------------------------------------------------
(* Option values and the string functions of the standard library that     *)
(* main() calls.                                                           *)

None ==
    [some |-> FALSE, val |-> <<>>]

Some(v) ==
    [some |-> TRUE, val |-> v]

\* Option<i32>, for ExitStatus::code().
NoCode ==
    [some |-> FALSE, val |-> 0]

SomeCode(c) ==
    [some |-> TRUE, val |-> c]

\* Stand-in for bytes that are not valid Unicode.
BadByte ==
    "\\xFF"

IsUnicode(s) ==
    \A i \in 1..Len(s) : s[i] # BadByte

\* OsStr::to_str
ToStr(s) ==
    IF IsUnicode(s) THEN Some(s) ELSE None

\* str::contains
Contains(s, sub) ==
    \E i \in 1..(Len(s) - Len(sub) + 1) : SubSeq(s, i, i + Len(sub) - 1) = sub

\* Index of the first occurrence of the one-character separator c in s, 0 if none.
RECURSIVE FindChar(_, _, _)
FindChar(s, c, i) ==
    IF i > Len(s) THEN 0
    ELSE IF s[i] = c THEN i
    ELSE FindChar(s, c, i + 1)

\* str::split on a one-character pattern: every piece, empty ones included.
RECURSIVE Split(_, _)
Split(s, c) ==
    LET k == FindChar(s, c, 1)
    IN  IF k = 0 THEN <<s>>
        ELSE <<SubSeq(s, 1, k - 1)>> \o Split(SubSeq(s, k + 1, Len(s)), c)

\* Iterator::filter(|s| !s.is_empty())
RECURSIVE FilterNonEmpty(_)
FilterNonEmpty(ss) ==
    IF ss = <<>> THEN <<>>
    ELSE IF Head(ss) = <<>> THEN FilterNonEmpty(Tail(ss))
    ELSE <<Head(ss)>> \o FilterNonEmpty(Tail(ss))

\* The separator of a search path list (Unix).
PathSep ==
    ":"

\* env::split_paths
SplitPaths(s) ==
    Split(s, PathSep)

RECURSIVE JoinWith(_, _)
JoinWith(ps, c) ==
    IF Len(ps) = 0 THEN <<>>
    ELSE IF Len(ps) = 1 THEN ps[1]
    ELSE ps[1] \o <<c>> \o JoinWith(Tail(ps), c)

\* env::join_paths: an error when an entry holds the separator.
JoinPaths(ps) ==
    IF \E i \in 1..Len(ps) : FindChar(ps[i], PathSep, 1) # 0
    THEN None
    ELSE Some(JoinWith(ps, PathSep))

---------------------------------------------------------------------------
(* The environment.                                                        *)

\* env::var_os
VarOs(e, k) ==
    e[k]

\* env::var: Err when the variable is absent or not valid Unicode.
Var(e, k) ==
    IF e[k].some /\ IsUnicode(e[k].val) THEN e[k] ELSE None

\* bootstrap::dylib_path_var(): the platform's library search path variable.
dylib_path_var ==
    "DYLIB_PATH"

\* bootstrap::dylib_path(): the entries of that variable's current value.
dylib_path(e) ==
    SplitPaths(IF e[dylib_path_var].some THEN e[dylib_path_var].val ELSE <<>>)

---------------------------------------------------------------------------
(* The pure parts of main().                                               *)

\* Mutant of ClassifyTarget: the last "--target" pair wins, not the first.
ClassifyTargetLast(a) ==
    LET hits == {i \in 1..(Len(a) - 1) : a[i] = S_target}
    IN  IF hits = {} THEN None
        ELSE LET last == CHOOSE i \in hits : \A j \in hits : i >= j
             IN  ToStr(a[last + 1])

\* args.windows(2).find(|w| w[0] == "--target").and_then(|w| w[1].to_str())
ClassifyTarget(a) ==
    LET hits == {i \in 1..(Len(a) - 1) : a[i] = S_target}
    IN  IF hits = {} THEN None
        ELSE LET first == CHOOSE i \in hits : \A j \in hits : i <= j
             IN  ToStr(a[first + 1])

\* Mutant of RustcVar: the real compiler in both modes.
RustcVarReal(t) ==
    "RUSTC_REAL"

\* The variable naming the compiler to run.
RustcVar(t) ==
    IF ~t.some THEN "RUSTC_SNAPSHOT" ELSE "RUSTC_REAL"

\* Mutant of Sysroot: unwrap_or_default, an absent sysroot passed as "".
SysrootOrEmpty(e) ==
    IF VarOs(e, "RUSTC_SYSROOT").some THEN VarOs(e, "RUSTC_SYSROOT") ELSE Some(<<>>)

\* env::var_os("RUSTC_SYSROOT"), unwrapped by the caller.
Sysroot(e) ==
    VarOs(e, "RUSTC_SYSROOT")

\* "--cfg stageN"
StageFlags(stage) ==
    <<S_cfg, S_stage \o stage>>

\* Mutant of SnapshotLibPath: the directory pushed at the end of the list.
SnapshotLibPathAppended(e, p) ==
    dylib_path(e) \o <<p>>

\* The search path handed to the snapshot compiler: RUSTC_SNAPSHOT_LIBDIR
\* inserted at index 0 of dylib_path().
SnapshotLibPath(e, p) ==
    <<p>> \o dylib_path(e)

\* "-L native=<MUSL_ROOT>/lib" when MUSL_ROOT is set.
MuslFlags(e) ==
    LET s == VarOs(e, "MUSL_ROOT")
    IN  IF s.some THEN <<S_L, S_native \o s.val \o S_lib>> ELSE <<>>

\* The tokens of RUSTC_FLAGS.
ExtraFlags(e) ==
    LET s == Var(e, "RUSTC_FLAGS")
    IN  IF s.some THEN FilterNonEmpty(Split(s.val, S_space[1])) ELSE <<>>

\* Mutant of TargetFlags: the extra flags ahead of the musl search path.
TargetFlagsExtraFirst(e, sysroot) ==
    <<S_sysroot, sysroot, S_prefer_dynamic>> \o ExtraFlags(e) \o MuslFlags(e)

\* Flags of the else branch (a target is given).
TargetFlags(e, sysroot) ==
    <<S_sysroot, sysroot, S_prefer_dynamic>> \o MuslFlags(e) \o ExtraFlags(e)

DebugInfoFlags(e) ==
    IF Var(e, "RUSTC_DEBUGINFO") = Some(S_true) THEN <<S_g>> ELSE <<>>

DebugAssertionsFlags(e) ==
    LET s == Var(e, "RUSTC_DEBUG_ASSERTIONS")
        debug_assertions == IF s.some
                            THEN (IF s.val = S_true THEN S_y ELSE S_n)
                            ELSE S_n
    IN  <<S_C, S_debug_assertions \o debug_assertions>>

CodegenUnitsFlags(e) ==
    LET s == Var(e, "RUSTC_CODEGEN_UNITS")
    IN  IF s.some THEN <<S_C, S_codegen_units \o s.val>> ELSE <<>>

\* Mutant of Rpath: the Windows test ahead of the Apple test.
RpathWindowsFirst(t) ==
    IF Contains(t, S_windows) THEN None
    ELSE IF Contains(t, S_apple) THEN Some(S_rpath_apple)
    ELSE Some(S_rpath_origin)

\* The rpath linker argument for a target, None on Windows.
Rpath(t) ==
    IF Contains(t, S_apple) THEN Some(S_rpath_apple)
    ELSE IF ~Contains(t, S_windows) THEN Some(S_rpath_origin)
    ELSE None

RpathFlags(e, t) ==
    IF Var(e, "RUSTC_RPATH") = Some(S_true)
    THEN (IF Rpath(t).some THEN <<S_C, S_link_args \o Rpath(t).val>> ELSE <<>>)
    ELSE <<>>

\* Flags of "if let Some(target) = target".
ConfigFlags(e, t) ==
    DebugInfoFlags(e) \o DebugAssertionsFlags(e) \o CodegenUnitsFlags(e)
        \o RpathFlags(e, t)

\* Mutant of ModeConfigFlags: the config flags appended in both modes.
ModeConfigFlagsAlways(e, t) ==
    ConfigFlags(e, t.val)

\* The flags of "if let Some(target) = target": none without a target.
ModeConfigFlags(e, t) ==
    IF t.some THEN ConfigFlags(e, t.val) ELSE <<>>

\* Mutant of ExitCodeOf: unwrap_or(0), a signalled child reported as success.
ExitCodeOfZero(st) ==
    IF st.some THEN st.val ELSE 0

\* s.code().unwrap_or(1)
ExitCodeOf(st) ==
    IF st.some THEN st.val ELSE 1

---------------------------------------------------------------------------
(* Commands, panics and the outcome of running the command.                *)

\* No Command yet.
NoCmd ==
    [program |-> <<>>, args |-> <<>>, env |-> {}]

\* Mutant of NewCmd: the stage flags ahead of the forwarded arguments.
NewCmdFlagsFirst(program, a, stage) ==
    [program |-> program, args |-> StageFlags(stage) \o a, env |-> {}]

\* Command::new(rustc) followed by cmd.args(&args) and the stage flags.
NewCmd(program, a, stage) ==
    [program |-> program, args |-> a \o StageFlags(stage), env |-> {}]

\* cmd.arg / cmd.args
WithArgs(c, more) ==
    [c EXCEPT !.args = @ \o more]

\* cmd.env(key, value)
WithEnv(c, k, v) ==
    [c EXCEPT !.env = {x \in @ : x.var # k} \cup {[var |-> k, val |-> v]}]

\* No child was spawned.
NoChild ==
    [spawned |-> FALSE, program |-> <<>>, args |-> <<>>, env |-> {}]

\* The child that Command::status spawned from c.
ChildOf(c) ==
    [spawned |-> TRUE, program |-> c.program, args |-> c.args, env |-> c.env]

NoPanic ==
    [kind |-> "none", what |-> "", cmd |-> NoCmd, err |-> ""]

\* Option::unwrap / Result::unwrap on the named value.
UnwrapPanic(what) ==
    [kind |-> "unwrap", what |-> what, cmd |-> NoCmd, err |-> ""]

\* panic!("failed to run {:?}: {}", cmd, e)
SpawnPanic(c, e) ==
    [kind |-> "failed to run", what |-> "", cmd |-> c, err |-> e]

\* The errors cmd.status() may return.
SpawnErrors ==
    {"NotFound", "PermissionDenied"}

\* What ExitStatus::code() may return: a code, or none (killed by a signal).
ChildStatuses ==
    {SomeCode(c) : c \in 0..MaxCode} \cup {NoCode}

\* Mutant of OnSpawnError: the failure downgraded to exit code 1.
OnSpawnErrorExitOne(c, e) ==
    [pc |-> "exited", panic |-> NoPanic, exitCode |-> SomeCode(1)]

\* The match on cmd.status(): where main() goes when the spawn failed.
OnSpawnError(c, e) ==
    [pc |-> "panicked", panic |-> SpawnPanic(c, e), exitCode |-> NoCode]

---------------------------------------------------------------------------
(* Inputs: argument lists and environments.                                *)

T_linux ==
    <<"x", "8", "6", "_", "6", "4", "-", "u", "n", "k", "n", "o", "w", "n", "-", "l", "i", "n", "u", "x", "-", "g", "n", "u">>
T_apple ==
    <<"x", "8", "6", "_", "6", "4", "-", "a", "p", "p", "l", "e", "-", "d", "a", "r", "w", "i", "n">>
T_windows ==
    <<"x", "8", "6", "_", "6", "4", "-", "p", "c", "-", "w", "i", "n", "d", "o", "w", "s", "-", "m", "s", "v", "c">>
\* A target naming both platforms.
T_both ==
    <<"a", "p", "p", "l", "e", "-", "w", "i", "n", "d", "o", "w", "s">>
A_file ==
    <<"a", ".", "r", "s">>
\* An argument that is not valid Unicode.
A_bad ==
    <<"t", BadByte>>

Tokens ==
    {S_target, T_linux, T_apple, T_both, A_file, A_bad}

\* Every argument list of at most MaxArgs tokens.
ArgsAll ==
    UNION {[1..n -> Tokens] : n \in 0..MaxArgs}

\* Representative argument lists of both modes.
ArgsFew ==
    { <<>>,
      <<A_file>>,
      <<A_file, S_target>>,
      <<S_target, T_linux, A_file>>,
      <<A_file, S_target, T_apple>>,
      <<S_target, T_windows>>,
      <<S_target, T_both>>,
      <<S_target, T_linux, S_target, T_apple>> }

V_snapshot ==
    <<"/", "s", "n", "a", "p", "/", "r", "u", "s", "t", "c">>
V_real ==
    <<"/", "r", "e", "a", "l", "/", "r", "u", "s", "t", "c">>
V_sysroot ==
    <<"/", "s", "y", "s", "r", "o", "o", "t">>
V_libdir ==
    <<"/", "s", "n", "a", "p", "/", "l", "i", "b">>
V_musl ==
    <<"/", "m", "u", "s", "l">>
V_flags ==
    <<" ", "-", "A", " ", " ", " ", "-", "B", " ">>
V_false ==
    <<"f", "a", "l", "s", "e">>
V_one ==
    <<"1">>
V_four ==
    <<"4">>
V_a ==
    <<"/", "a">>
V_ab ==
    <<"/", "a", ":", "/", "b">>
\* A directory whose name holds the path separator.
V_sep ==
    <<"/", "x", ":", "y">>
V_bad ==
    <<BadByte>>

\* Every variable that main() reads is set.
EnvAllSet ==
    [ RUSTC_SNAPSHOT         |-> Some(V_snapshot),
      RUSTC_REAL             |-> Some(V_real),
      RUSTC_STAGE            |-> Some(V_one),
      RUSTC_SYSROOT          |-> Some(V_sysroot),
      RUSTC_SNAPSHOT_LIBDIR  |-> Some(V_libdir),
      MUSL_ROOT              |-> Some(V_musl),
      RUSTC_FLAGS            |-> Some(V_flags),
      RUSTC_DEBUGINFO        |-> Some(S_true),
      RUSTC_DEBUG_ASSERTIONS |-> Some(S_true),
      RUSTC_CODEGEN_UNITS    |-> Some(V_four),
      RUSTC_RPATH            |-> Some(S_true),
      DYLIB_PATH             |-> Some(V_ab) ]

\* Only the variables that main() unwraps are set.
EnvRequiredOnly ==
    [ RUSTC_SNAPSHOT         |-> Some(V_snapshot),
      RUSTC_REAL             |-> Some(V_real),
      RUSTC_STAGE            |-> Some(V_one),
      RUSTC_SYSROOT          |-> Some(V_sysroot),
      RUSTC_SNAPSHOT_LIBDIR  |-> None,
      MUSL_ROOT              |-> None,
      RUSTC_FLAGS            |-> None,
      RUSTC_DEBUGINFO        |-> None,
      RUSTC_DEBUG_ASSERTIONS |-> None,
      RUSTC_CODEGEN_UNITS    |-> None,
      RUSTC_RPATH            |-> None,
      DYLIB_PATH             |-> None ]

EnvPresets ==
    {EnvAllSet, EnvRequiredOnly}

\* The unwrapped variables vary, the others follow a preset.
EnvsRequired ==
    { [b EXCEPT !.RUSTC_SNAPSHOT = snap, !.RUSTC_REAL = real,
                !.RUSTC_STAGE = stage, !.RUSTC_SYSROOT = sysroot] :
        b \in EnvPresets,
        snap \in {None, Some(V_snapshot)},
        real \in {None, Some(V_real)},
        stage \in {None, Some(V_one), Some(V_bad)},
        sysroot \in {None, Some(V_sysroot)} }

\* The variables of the build-script branch vary.
EnvsBuild ==
    { [b EXCEPT !.RUSTC_SNAPSHOT_LIBDIR = libdir, !.DYLIB_PATH = path] :
        b \in EnvPresets,
        libdir \in {None, Some(V_libdir), Some(V_sep)},
        path \in {None, Some(V_a), Some(V_ab)} }

\* The optional variables of the target branch vary.
EnvsTarget ==
    { [EnvAllSet EXCEPT !.MUSL_ROOT = musl, !.RUSTC_FLAGS = flags,
                        !.RUSTC_DEBUGINFO = debuginfo,
                        !.RUSTC_DEBUG_ASSERTIONS = assertions,
                        !.RUSTC_CODEGEN_UNITS = units, !.RUSTC_RPATH = rpath] :
        musl \in {None, Some(V_musl)},
        flags \in {None, Some(V_flags), Some(V_bad)},
        debuginfo \in {None, Some(S_true), Some(V_false)},
        assertions \in {None, Some(S_true), Some(V_false)},
        units \in {None, Some(V_four), Some(V_bad)},
        rpath \in {None, Some(S_true), Some(V_false)} }

---------------------------------------------------------------------------
(* The state machine.                                                      *)

Init ==
    /\ \/ args \in ArgsAll /\ env \in EnvPresets
       \/ args \in ArgsFew /\ env \in EnvsRequired \cup EnvsBuild \cup EnvsTarget
    /\ pc = "classify"
    /\ target = None
    /\ rustc = None
    /\ cmd = NoCmd
    /\ spawns = 0
    /\ child = NoChild
    /\ status = NoCode
    /\ exitCode = NoCode
    /\ panic = NoPanic

\* Lines 36-40: derive the target from the arguments.
Classify ==
    /\ pc = "classify"
    /\ target' = ClassifyTarget(args)
    /\ pc' = "select"
    /\ UNCHANGED <<args, env, rustc, cmd, spawns, child, status, exitCode, panic>>

\* Lines 47-51: the snapshot compiler without a target, the real one with.
SelectCompiler ==
    /\ pc = "select"
    /\ LET v == VarOs(env, RustcVar(target))
       IN  \/ /\ v.some
              /\ rustc' = v
              /\ pc' = "command"
              /\ UNCHANGED panic
           \/ /\ ~v.some
              /\ panic' = UnwrapPanic(RustcVar(target))
              /\ pc' = "panicked"
              /\ UNCHANGED rustc
    /\ UNCHANGED <<args, env, target, cmd, spawns, child, status, exitCode>>

\* Lines 53-55: the command, the forwarded arguments, the stage cfg.
NewCommand ==
    /\ pc = "command"
    /\ LET stage == Var(env, "RUSTC_STAGE")
       IN  \/ /\ stage.some
              /\ cmd' = NewCmd(rustc.val, args, stage.val)
              /\ pc' = IF ~target.some THEN "build_env" ELSE "target_flags"
              /\ UNCHANGED panic
           \/ /\ ~stage.some
              /\ panic' = UnwrapPanic("RUSTC_STAGE")
              /\ pc' = "panicked"
              /\ UNCHANGED cmd
    /\ UNCHANGED <<args, env, target, rustc, spawns, child, status, exitCode>>

\* Lines 57-65: the library search path of the snapshot compiler.
ComposeEnv ==
    /\ pc = "build_env"
    /\ LET p == VarOs(env, "RUSTC_SNAPSHOT_LIBDIR")
           joined == JoinPaths(SnapshotLibPath(env, p.val))
       IN  \/ /\ ~p.some
              /\ pc' = "config"
              /\ UNCHANGED <<cmd, panic>>
           \/ /\ p.some /\ joined.some
              /\ cmd' = WithEnv(cmd, dylib_path_var, joined.val)
              /\ pc' = "config"
              /\ UNCHANGED panic
           \/ /\ p.some /\ ~joined.some
              /\ panic' = UnwrapPanic("join_paths")
              /\ pc' = "panicked"
              /\ UNCHANGED cmd
    /\ UNCHANGED <<args, env, target, rustc, spawns, child, status, exitCode>>

\* Lines 66-83: sysroot, prefer-dynamic, musl, extra flags.
ComposeTargetFlags ==
    /\ pc = "target_flags"
    /\ LET sysroot == Sysroot(env)
       IN  \/ /\ sysroot.some
              /\ cmd' = WithArgs(cmd, TargetFlags(env, sysroot.val))
              /\ pc' = "config"
              /\ UNCHANGED panic
           \/ /\ ~sysroot.some
              /\ panic' = UnwrapPanic("RUSTC_SYSROOT")
              /\ pc' = "panicked"
              /\ UNCHANGED cmd
    /\ UNCHANGED <<args, env, target, rustc, spawns, child, status, exitCode>>

\* Lines 85-138: the options of config.toml, only when a target is given.
ComposeConfigFlags ==
    /\ pc = "config"
    /\ cmd' = WithArgs(cmd, ModeConfigFlags(env, target))
    /\ pc' = "launch"
    /\ UNCHANGED <<args, env, target, rustc, spawns, child, status, exitCode, panic>>

\* Line 141, cmd.status(): the child is spawned, or the spawn fails (line 143).
Launch ==
    /\ pc = "launch"
    /\ spawns' = spawns + 1
    /\ \/ /\ child' = ChildOf(cmd)
          /\ pc' = "running"
          /\ UNCHANGED <<exitCode, panic>>
       \/ \E e \in SpawnErrors :
             LET next == OnSpawnError(cmd, e)
             IN  /\ pc' = next.pc
                 /\ panic' = next.panic
                 /\ exitCode' = next.exitCode
                 /\ UNCHANGED child
    /\ UNCHANGED <<args, env, target, rustc, cmd, status>>

\* Lines 141-142: the child terminates and main() exits with its code.
ChildExit ==
    /\ pc = "running"
    /\ \E st \in ChildStatuses :
          /\ status' = st
          /\ exitCode' = SomeCode(ExitCodeOf(st))
    /\ pc' = "exited"
    /\ UNCHANGED <<args, env, target, rustc, cmd, spawns, child, panic>>

Next ==
    \/ Classify
    \/ SelectCompiler
    \/ NewCommand
    \/ ComposeEnv
    \/ ComposeTargetFlags
    \/ ComposeConfigFlags
    \/ Launch
    \/ ChildExit

Spec ==
    Init /\ [][Next]_vars

---------------------------------------------------------------------------
(* Properties.                                                             *)

\* The command is complete: cmd.status() is about to run or has run.
Composed ==
    \/ pc \in {"launch", "running", "exited"}
    \/ pc = "panicked" /\ panic.kind = "failed to run"

\* A value that the active mode unwraps is absent.
RequiredMissing ==
    \/ ~env[RustcVar(target)].some
    \/ ~env.RUSTC_STAGE.some
    \/ target.some /\ ~env.RUSTC_SYSROOT.some

\* C1: once the child was spawned and has terminated, main() exits with the
\* child's code when it reported one (non-zero codes included), and with 1
\* when it reported none (killed by a signal).
ThmC1_ExitCodePropagated ==
    pc = "exited" =>
        /\ child.spawned
        /\ exitCode.some
        /\ status.some => exitCode.val = status.val
        /\ ~status.some => exitCode.val = 1

\* C1 witness: a child that ended with a non-zero code, propagated.
WitC1_NonZeroCode ==
    /\ pc = "exited"
    /\ status = SomeCode(MaxCode)
    /\ exitCode = SomeCode(MaxCode)
    /\ MaxCode > 0

\* C2: a failed spawn ends main() at once in a panic that carries the
\* attempted command and the spawn error; there is no second spawn attempt,
\* the command still names the compiler selected from the mode, and no exit
\* code is produced (neither a child's code nor the fallback 1).
ThmC2_SpawnFailureIsFatal ==
    /\ spawns <= 1
    /\ (spawns = 1 /\ ~child.spawned) =>
          /\ pc = "panicked"
          /\ panic.kind = "failed to run"
          /\ panic.cmd = cmd
          /\ panic.cmd.program = env[RustcVar(target)].val
          /\ panic.cmd.program = rustc.val
          /\ panic.err \in SpawnErrors
          /\ ~exitCode.some
    /\ pc = "panicked" => ~exitCode.some

\* C2 witness: the spawn of a composed target-mode command failed.
WitC2_SpawnFailed ==
    /\ spawns = 1
    /\ ~child.spawned
    /\ pc = "panicked"
    /\ panic.err = "NotFound"
    /\ panic.cmd.program = V_real
    /\ Len(panic.cmd.args) > Len(args)

\* C3: with a value required by the active mode absent (RUSTC_SNAPSHOT
\* without a target; RUSTC_REAL or RUSTC_SYSROOT with one; RUSTC_STAGE in
\* both) main() never reaches the spawn: it stops in an unwrap panic with no
\* spawn attempted.  Conversely an exit code is produced only after a child
\* was spawned.
ThmC3_MissingConfigAbortsBeforeSpawn ==
    /\ (pc # "classify" /\ RequiredMissing) =>
          /\ spawns = 0
          /\ ~child.spawned
          /\ ~exitCode.some
          /\ pc \in {"select", "command", "target_flags", "panicked"}
          /\ pc = "panicked" => panic.kind = "unwrap"
    /\ (exitCode.some \/ pc = "exited") => (child.spawned /\ spawns = 1)

\* C3 witness: a target compile without RUSTC_SYSROOT panicked before any spawn.
WitC3_SysrootMissing ==
    /\ target.some
    /\ ~env.RUSTC_SYSROOT.some
    /\ env.RUSTC_REAL.some
    /\ pc = "panicked"
    /\ panic = UnwrapPanic("RUSTC_SYSROOT")
    /\ spawns = 0

\* Position i of the arguments holds "--target" and is followed by a token.
IsTargetPair(i) ==
    i \in 1..(Len(args) - 1) /\ args[i] = S_target

\* C4 as stated: every "--target" X pair of the arguments, X a string, makes
\* the mode TargetCompileMode(X) and the compiler RUSTC_REAL.
CexC4_EveryTargetPair ==
    \A i \in 1..(Len(args) - 1) :
        (pc # "classify" /\ IsTargetPair(i) /\ IsUnicode(args[i + 1])) =>
            /\ target = Some(args[i + 1])
            /\ rustc.some => rustc = env.RUSTC_REAL

\* C4 amended: the first "--target" that is followed by a token decides.
\* With X the token after it: X valid Unicode gives TargetCompileMode(X) and
\* the compiler RUSTC_REAL, whatever pairs follow; X not valid Unicode gives
\* BuildScriptMode and the compiler RUSTC_SNAPSHOT.
ThmC4_FirstTargetPair ==
    \A i \in 1..(Len(args) - 1) :
        (/\ pc # "classify"
         /\ IsTargetPair(i)
         /\ \A j \in 1..(i - 1) : args[j] # S_target) =>
            /\ IsUnicode(args[i + 1]) =>
                  /\ target = Some(args[i + 1])
                  /\ rustc.some => rustc = env.RUSTC_REAL
                  /\ child.spawned => child.program = env.RUSTC_REAL.val
                  /\ pc \notin {"select", "panicked"} => rustc.some
            /\ ~IsUnicode(args[i + 1]) =>
                  /\ target = None
                  /\ rustc.some => rustc = env.RUSTC_SNAPSHOT

\* C4 witness: two pairs, the first one decided, the real compiler runs.
WitC4_FirstOfTwoPairs ==
    /\ args = <<S_target, T_linux, S_target, T_apple>>
    /\ target = Some(T_linux)
    /\ child.spawned
    /\ child.program = V_real

\* C5: with no "--target" followed by a token (the empty list and a trailing
\* "--target" included) the mode is BuildScriptMode, the compiler is
\* RUSTC_SNAPSHOT, and classification itself never faults: the only panics
\* are the later unwraps of this mode and the failed spawn.
ThmC5_NoTargetPairIsBuildScript ==
    (\A i \in 1..(Len(args) - 1) : args[i] # S_target) =>
        /\ pc # "classify" => target = None
        /\ rustc.some => rustc = env.RUSTC_SNAPSHOT
        /\ pc \notin {"classify", "select", "panicked"} => rustc.some
        /\ child.spawned => child.program = env.RUSTC_SNAPSHOT.val
        /\ pc = "panicked" =>
              \/ panic.kind = "failed to run"
              \/ panic.what \in {"RUSTC_SNAPSHOT", "RUSTC_STAGE", "join_paths"}

\* C5 witness: a trailing "--target" ran the snapshot compiler.
WitC5_TrailingTarget ==
    /\ args = <<A_file, S_target>>
    /\ target = None
    /\ child.spawned
    /\ child.program = V_snapshot

\* The tokens of RUSTC_FLAGS: none empty, none holding a space.
ExtraTokensClean ==
    \A i \in 1..Len(ExtraFlags(env)) :
        ExtraFlags(env)[i] # <<>> /\ ~Contains(ExtraFlags(env)[i], S_space)

\* The appended arguments of a target compile, group by group.
ExpectedTargetTail ==
    <<S_cfg, S_stage \o env.RUSTC_STAGE.val>>
    \o <<S_sysroot, env.RUSTC_SYSROOT.val>>
    \o <<S_prefer_dynamic>>
    \o (IF env.MUSL_ROOT.some
        THEN <<S_L, S_native \o env.MUSL_ROOT.val \o S_lib>> ELSE <<>>)
    \o (IF env.RUSTC_FLAGS = Some(V_flags) THEN << <<"-", "A">>, <<"-", "B">> >>
        ELSE <<>>)
    \o (IF env.RUSTC_DEBUGINFO = Some(S_true) THEN <<S_g>> ELSE <<>>)
    \o <<S_C, S_debug_assertions
              \o (IF env.RUSTC_DEBUG_ASSERTIONS = Some(S_true) THEN S_y ELSE S_n)>>
    \o (IF env.RUSTC_CODEGEN_UNITS.some /\ IsUnicode(env.RUSTC_CODEGEN_UNITS.val)
        THEN <<S_C, S_codegen_units \o env.RUSTC_CODEGEN_UNITS.val>> ELSE <<>>)
    \o (IF env.RUSTC_RPATH = Some(S_true) /\ Rpath(target.val).some
        THEN <<S_C, S_link_args \o Rpath(target.val).val>> ELSE <<>>)

\* C6: with a target, the composed arguments are the forwarded ones followed
\* by, in this order: stage cfg, sysroot, -Cprefer-dynamic, the musl search
\* path, the RUSTC_FLAGS tokens, -g, debug-assertions (always), codegen-units,
\* the rpath link-args; each optional group exactly when its variable asks.
ThmC6_TargetTailOrder ==
    (Composed /\ target.some) =>
        /\ cmd.args = args \o ExpectedTargetTail
        /\ ExtraTokensClean
        /\ child.spawned => child.args = cmd.args

\* C6 witness: every optional group present, in order.
WitC6_AllGroups ==
    /\ child.spawned
    /\ env = EnvAllSet
    /\ child.args = <<S_target, T_linux, A_file>>
                     \o <<S_cfg, <<"s", "t", "a", "g", "e", "1">> >>
                     \o <<S_sysroot, V_sysroot, S_prefer_dynamic>>
                     \o <<S_L, <<"n", "a", "t", "i", "v", "e", "=", "/", "m", "u", "s", "l", "/", "l", "i", "b">> >>
                     \o << <<"-", "A">>, <<"-", "B">> >>
                     \o <<S_g>>
                     \o <<S_C, S_debug_assertions \o S_y>>
                     \o <<S_C, S_codegen_units \o V_four>>
                     \o <<S_C, S_link_args \o S_rpath_origin>>

\* The composed arguments end with the rpath linker argument r.
HasRpath(r) ==
    /\ Len(cmd.args) >= Len(args) + 2
    /\ SubSeq(cmd.args, Len(cmd.args) - 1, Len(cmd.args)) = <<S_C, S_link_args \o r>>

\* String s begins with p.
StartsWith(s, p) ==
    Len(s) >= Len(p) /\ SubSeq(s, 1, Len(p)) = p

\* No appended argument is a link-args argument.
NoRpath ==
    \A i \in (Len(args) + 1)..Len(cmd.args) : ~StartsWith(cmd.args[i], S_link_args)

\* C7 as stated: with RUSTC_RPATH = "true", "apple" in the target gives the
\* @loader_path argument, "windows" in the target gives none, any other
\* target gives the $ORIGIN argument; without the toggle there is none.
CexC7_RpathByPlatform ==
    (Composed /\ target.some) =>
        IF env.RUSTC_RPATH = Some(S_true)
        THEN /\ Contains(target.val, S_apple) => HasRpath(S_rpath_apple)
             /\ Contains(target.val, S_windows) => NoRpath
             /\ (~Contains(target.val, S_apple) /\ ~Contains(target.val, S_windows))
                   => HasRpath(S_rpath_origin)
        ELSE NoRpath

\* C7 amended: the Apple test comes first.  "apple" in the target gives the
\* @loader_path argument; "windows" and no "apple" gives none; neither gives
\* the $ORIGIN argument; without the toggle there is none.
ThmC7_RpathAppleFirst ==
    (Composed /\ target.some) =>
        IF env.RUSTC_RPATH = Some(S_true)
        THEN /\ Contains(target.val, S_apple) => HasRpath(S_rpath_apple)
             /\ (Contains(target.val, S_windows) /\ ~Contains(target.val, S_apple))
                   => NoRpath
             /\ (~Contains(target.val, S_apple) /\ ~Contains(target.val, S_windows))
                   => HasRpath(S_rpath_origin)
        ELSE NoRpath

\* C7 witness: a target naming both platforms got the Apple argument.
WitC7_AppleAndWindows ==
    /\ Composed
    /\ target = Some(T_both)
    /\ env.RUSTC_RPATH = Some(S_true)
    /\ HasRpath(S_rpath_apple)

\* C8: in both modes the composed arguments begin with the forwarded
\* arguments, complete, in order and unchanged ("--target" pair included),
\* and the child is handed exactly the composed arguments.
ThmC8_ForwardedArgsArePrefix ==
    /\ cmd # NoCmd =>
          /\ Len(cmd.args) >= Len(args)
          /\ SubSeq(cmd.args, 1, Len(args)) = args
    /\ child.spawned =>
          /\ child.args = cmd.args
          /\ SubSeq(child.args, 1, Len(args)) = args

\* C8 witness: a target compile whose child got the "--target" pair first.
WitC8_TargetPairForwarded ==
    /\ child.spawned
    /\ args = <<A_file, S_target, T_apple>>
    /\ target.some
    /\ SubSeq(child.args, 1, 3) = <<A_file, S_target, T_apple>>
    /\ Len(child.args) > 3

\* C9: once the mode branch has run, the command overrides the environment
\* only without a target and with RUSTC_SNAPSHOT_LIBDIR set: then exactly the
\* library search path variable, set to that directory followed by the
\* variable's current value.  Otherwise there is no override.
ThmC9_OnlySnapshotLibdirOverride ==
    (pc = "config" \/ Composed) =>
        /\ IF ~target.some /\ env.RUSTC_SNAPSHOT_LIBDIR.some
           THEN cmd.env =
                  {[var |-> dylib_path_var,
                    val |-> env.RUSTC_SNAPSHOT_LIBDIR.val \o <<PathSep>>
                            \o (IF env.DYLIB_PATH.some THEN env.DYLIB_PATH.val
                                ELSE <<>>)]}
           ELSE cmd.env = {}
        /\ child.spawned => child.env = cmd.env

\* C9 witness: the snapshot compiler ran with the directory put first.
WitC9_LibdirFirst ==
    /\ child.spawned
    /\ ~target.some
    /\ child.env = {[var |-> "DYLIB_PATH",
                     val |-> <<"/", "s", "n", "a", "p", "/", "l", "i", "b", ":", "/", "a", ":", "/", "b">>]}

\* C10: without a target the appended arguments are the stage cfg alone, for
\* every environment, and the only values this mode unwraps are
\* RUSTC_SNAPSHOT and RUSTC_STAGE (and the joined search path).
ThmC10_BuildScriptTailIsStageOnly ==
    (pc # "classify" /\ ~target.some) =>
        /\ cmd # NoCmd =>
              cmd.args = args \o <<S_cfg, S_stage \o env.RUSTC_STAGE.val>>
        /\ child.spawned =>
              child.args = args \o <<S_cfg, S_stage \o env.RUSTC_STAGE.val>>
        /\ (pc = "panicked" /\ panic.kind = "unwrap") =>
              panic.what \in {"RUSTC_SNAPSHOT", "RUSTC_STAGE", "join_paths"}

\* C10 witness: a build script compiled with every target-only flag set and
\* neither RUSTC_REAL nor RUSTC_SYSROOT present.
WitC10_TargetValuesIgnored ==
    /\ child.spawned
    /\ ~target.some
    /\ ~env.RUSTC_REAL.some
    /\ ~env.RUSTC_SYSROOT.some
    /\ env.MUSL_ROOT.some
    /\ env.RUSTC_FLAGS.some
    /\ env.RUSTC_DEBUGINFO = Some(S_true)
    /\ env.RUSTC_RPATH = Some(S_true)
    /\ child.args = args \o <<S_cfg, <<"s", "t", "a", "g", "e", "1">> >>

====
